---- MODULE Spec2Model ----
(***************************************************************************)
(* Model of src/app/main.py: the two proxy handlers get_github_user and    *)
(* get_weather, the outbound calls they issue through the shared client    *)
(* and the outcome each request ends with.                                 *)
(*                                                                         *)
(* Text is a sequence of one-character strings, so that lower(), `in`,     *)
(* int(), float() and str() act on characters as the Python code does.     *)
(***************************************************************************)
EXTENDS Integers, Sequences, FiniteSets, TLC

(* ---------------------------------------------------------------- bounds *)

\* Number of inbound requests that may be in flight together.
NumReqs == 2

\* Longest list the geocoding API answers with.
MaxPlaces == 2

Reqs == 1..NumReqs

(* ------------------------------------------------------------ JSON values *)

\* A JSON scalar as Python sees it after r.json(); "absent" is a missing key.
Absent == [t |-> "absent", n |-> 0, s |-> <<>>]
Null == [t |-> "null", n |-> 0, s |-> <<>>]
JInt(i) == [t |-> "int", n |-> i, s |-> <<>>]
JStr(x) == [t |-> "str", n |-> 0, s |-> x]

\* dict.get(key): None when the key is missing.
Get(v) == IF v.t = "absent" THEN Null ELSE v

\* dict.get(key, default)
GetDefault(v, d) == IF v.t = "absent" THEN d ELSE v

\* Python truthiness of a scalar.
Truthy(v) ==
    CASE v.t = "int" -> v.n # 0
      [] v.t = "str" -> Len(v.s) > 0
      [] OTHER -> FALSE

\* x or y
PyOr(x, y) == IF Truthy(x) THEN x ELSE y

(* ------------------------------------------------------------------ text *)

UpperChars == <<"A","B","C","D","E","F","G","H","I","J","K","L","M",
                "N","O","P","Q","R","S","T","U","V","W","X","Y","Z">>
LowerChars == <<"a","b","c","d","e","f","g","h","i","j","k","l","m",
                "n","o","p","q","r","s","t","u","v","w","x","y","z">>

LowerChar(c) ==
    IF \E i \in 1..26 : UpperChars[i] = c
    THEN LowerChars[CHOOSE i \in 1..26 : UpperChars[i] = c]
    ELSE c

\* str.lower()
Lower(s) == [i \in 1..Len(s) |-> LowerChar(s[i])]

\* sub in s
Contains(sub, s) ==
    \E i \in 1..(Len(s) - Len(sub) + 1) : SubSeq(s, i, i + Len(sub) - 1) = sub

DigitChars == <<"0","1","2","3","4","5","6","7","8","9">>
IsDigit(c) == \E i \in 1..10 : DigitChars[i] = c
DigitVal(c) == (CHOOSE i \in 1..10 : DigitChars[i] = c) - 1

RECURSIVE LStrip(_)
LStrip(s) == IF s # <<>> /\ Head(s) = " " THEN LStrip(Tail(s)) ELSE s

RECURSIVE RStrip(_)
RStrip(s) ==
    IF s # <<>> /\ s[Len(s)] = " " THEN RStrip(SubSeq(s, 1, Len(s) - 1)) ELSE s

RECURSIVE ParseDigits(_)
ParseDigits(s) ==
    IF s = <<>> THEN 0
    ELSE ParseDigits(SubSeq(s, 1, Len(s) - 1)) * 10 + DigitVal(s[Len(s)])

\* int(<str>): surrounding blanks and one sign are accepted, then digits only.
ParseIntText(s) ==
    LET t == RStrip(LStrip(s))
        signed == t # <<>> /\ Head(t) \in {"-", "+"}
        body == IF signed THEN Tail(t) ELSE t
    IN  IF body # <<>> /\ \A i \in 1..Len(body) : IsDigit(body[i])
        THEN [ok |-> TRUE,
              n |-> IF signed /\ Head(t) = "-" THEN 0 - ParseDigits(body)
                    ELSE ParseDigits(body)]
        ELSE [ok |-> FALSE, n |-> 0]

\* PyInt with a slip: only JSON numbers are accepted.
PyIntNumbersOnly(v) ==
    IF v.t = "int" THEN [ok |-> TRUE, n |-> v.n] ELSE [ok |-> FALSE, n |-> 0]

\* int(v): a number is kept, text is parsed (ValueError when it is not
\* numeric), None raises TypeError.
PyInt(v) ==
    CASE v.t = "int" -> [ok |-> TRUE, n |-> v.n]
      [] v.t = "str" -> ParseIntText(v.s)
      [] OTHER -> [ok |-> FALSE, n |-> 0]

\* float(v): a number is kept, text is parsed, None raises TypeError. The
\* temperatures of the model are whole degrees, as numbers or as digit text.
PyFloat(v) ==
    CASE v.t = "int" -> [ok |-> TRUE, n |-> v.n]
      [] v.t = "str" -> ParseIntText(v.s)
      [] OTHER -> [ok |-> FALSE, n |-> 0]

RECURSIVE NatText(_)
NatText(n) ==
    IF n < 10 THEN <<DigitChars[n + 1]>>
    ELSE NatText(n \div 10) \o <<DigitChars[(n % 10) + 1]>>

\* str(v): text is kept, a number is printed in decimal, None prints "None".
PyStr(v) ==
    CASE v.t = "str" -> v.s
      [] v.t = "int" -> IF v.n < 0 THEN <<"-">> \o NatText(0 - v.n) ELSE NatText(v.n)
      [] OTHER -> <<"N","o","n","e">>

(* --------------------------------------------------- responses, outcomes *)

\* A response header that may be missing (r.headers.get gives None then).
NoHeader == [present |-> FALSE, v |-> ""]
Header(x) == [present |-> TRUE, v |-> x]

\* What awaiting client.get(...) gives: an httpx exception (exc # "none"), or a
\* response with its status code, X-RateLimit-Remaining header and body.
Raised(e, nobody) == [exc |-> e, status |-> 0, remaining |-> NoHeader, body |-> nobody]
Answered(st, rem, body) == [exc |-> "none", status |-> st, remaining |-> rem, body |-> body]

\* The httpx.RequestError subclasses a call can raise; the timeouts configured
\* at startup surface as ConnectTimeout, ReadTimeout and PoolTimeout.
TimeoutErrors == {"ConnectTimeout", "ReadTimeout", "PoolTimeout"}
NetworkErrors == {"ConnectError", "ReadError"} \cup TimeoutErrors

\* IsRequestError with a slip: timeouts are not caught.
IsRequestErrorNoTimeout(e) == e \in {"ConnectError", "ReadError"}

\* except httpx.RequestError
IsRequestError(e) == e \in NetworkErrors

\* is_error with a slip: only server errors count.
is_error_5xx(status) == 500 <= status /\ status <= 599

\* httpx.Response.is_error: a 4xx or 5xx status code.
is_error(status) == 400 <= status /\ status <= 599

NoUser == [login |-> <<>>, name |-> Null, public_repos |-> 0, followers |-> 0,
           following |-> 0]
NoWeather == [city |-> <<>>, temperature |-> 0, weather_description |-> <<>>]

\* How a handler ends: it returns a model object, raises HTTPException(status,
\* detail), or lets another exception escape (kind "unhandled").
NoOutcome ==
    [kind |-> "none", status |-> 0, detail |-> "", exc |-> "",
     user |-> NoUser, weather |-> NoWeather]
HTTPException(status_code, detail) ==
    [NoOutcome EXCEPT !.kind = "http_error", !.status = status_code, !.detail = detail]
Unhandled(e) == [NoOutcome EXCEPT !.kind = "unhandled", !.exc = e]
ReturnUser(u) == [NoOutcome EXCEPT !.kind = "user", !.status = 200, !.user = u]
ReturnWeather(w) == [NoOutcome EXCEPT !.kind = "weather", !.status = 200, !.weather = w]

(* -------------------------------------------------------- get_github_user *)

\* The body of a GitHub answer: not JSON at all, a JSON list, JSON null, or an
\* object with the keys the handler reads.
GhBody(kind, login, name, public_repos, followers, following, message) ==
    [kind |-> kind, login |-> login, name |-> name, public_repos |-> public_repos,
     followers |-> followers, following |-> following, message |-> message]
GhOther(kind) == GhBody(kind, Absent, Absent, Absent, Absent, Absent, Absent)

\* msg of the 403 branch: (r.json().get("message") or "").lower(), and "" when
\* anything in that expression raises.
RateLimitMessage(body) ==
    IF body.kind # "object" THEN <<>>
    ELSE LET m == PyOr(Get(body.message), JStr(<<>>))
         IN  IF m.t = "str" THEN Lower(m.s) ELSE <<>>

RateLimitText == <<"r","a","t","e"," ","l","i","m","i","t">>

\* IsRateLimited with a slip: both signs are required.
IsRateLimitedBoth(remaining, msg) ==
    (remaining.present /\ remaining.v = "0") /\ Contains(RateLimitText, msg)

\* remaining == "0" or "rate limit" in msg
IsRateLimited(remaining, msg) ==
    (remaining.present /\ remaining.v = "0") \/ Contains(RateLimitText, msg)

\* GitHubUserResponse(...) inside the try: every failure of the field reads,
\* of int() or of the pydantic validation becomes a 500.
BuildUser(body) ==
    LET pr == PyInt(GetDefault(body.public_repos, JInt(0)))
        fo == PyInt(GetDefault(body.followers, JInt(0)))
        fg == PyInt(GetDefault(body.following, JInt(0)))
        login == Get(body.login)
        name == Get(body.name)
        shape == "Unexpected response shape from GitHub"
    IN  IF body.kind # "object" THEN HTTPException(500, shape)
        ELSE IF ~(pr.ok /\ fo.ok /\ fg.ok) THEN HTTPException(500, shape)
        ELSE IF login.t # "str" \/ name.t \notin {"str", "null"}
             THEN HTTPException(500, shape)
        ELSE ReturnUser([login |-> login.s, name |-> name, public_repos |-> pr.n,
                         followers |-> fo.n, following |-> fg.n])

\* The handler from the awaited call to its end.
GithubResult(resp) ==
    IF resp.exc # "none"
    THEN IF IsRequestError(resp.exc)
         THEN HTTPException(502, "Network error talking to GitHub")
         ELSE Unhandled(resp.exc)
    ELSE IF resp.status = 404 THEN HTTPException(404, "GitHub user not found")
    ELSE IF resp.status = 403
         THEN IF IsRateLimited(resp.remaining, RateLimitMessage(resp.body))
              THEN HTTPException(429, "GitHub API rate limit exceeded")
              ELSE HTTPException(403, "GitHub API returned 403 Forbidden")
    ELSE IF is_error(resp.status) THEN HTTPException(resp.status, "GitHub API error")
    ELSE IF resp.body.kind = "notjson" THEN Unhandled("JSONDecodeError")
    ELSE BuildUser(resp.body)

(* ------------------------------------------------------------ get_weather *)

\* KeyMissing with a slip: only an unset variable counts as missing.
KeyUnset(key) == ~key.set

\* not api_key: os.getenv gave None or the empty string.
KeyMissing(key) == ~key.set \/ key.v = ""

\* One element of the geocoding list: a JSON object with the keys the handler
\* reads, or some other JSON value (isdict = FALSE).
Place(isdict, name, lat, lon) == [isdict |-> isdict, name |-> name, lat |-> lat, lon |-> lon]

\* The body of a geocoding answer: not JSON, a JSON object, JSON null, or a list.
GeoBody(kind, places) == [kind |-> kind, places |-> places]

\* PlacesNotFound with a slip: the empty list is not checked.
PlacesNotList(body) == body.kind # "list"

\* not isinstance(places, list) or len(places) == 0
PlacesNotFound(body) == body.kind # "list" \/ Len(body.places) = 0

\* CoordsMissing with a slip: both coordinates must be missing.
CoordsBothMissing(lat, lon) == lat.t = "null" /\ lon.t = "null"

\* lat is None or lon is None
CoordsMissing(lat, lon) == lat.t = "null" \/ lon.t = "null"

\* An outbound call: the API it goes to and the parameters that vary.
Call(api, q, appid, lat, lon) ==
    [api |-> api, q |-> q, appid |-> appid, lat |-> lat, lon |-> lon]

\* The handler from the awaited geocode call to its next await or its end:
\* done = TRUE with the outcome, or done = FALSE with resolved_name and the
\* current-weather call to issue.
GeoStep(city, key, resp) ==
    LET end(o) == [done |-> TRUE, outcome |-> o, resolved_name |-> Null,
                   call |-> Call("none", <<>>, "", Null, Null)]
        body == resp.body
    IN  IF resp.exc # "none"
        THEN IF IsRequestError(resp.exc)
             THEN end(HTTPException(502, "Network error talking to OpenWeather Geocoding API"))
             ELSE end(Unhandled(resp.exc))
        ELSE IF is_error(resp.status)
             THEN end(HTTPException(resp.status, "OpenWeather geocoding API error"))
        ELSE IF body.kind = "notjson" THEN end(Unhandled("JSONDecodeError"))
        ELSE IF PlacesNotFound(body)
             THEN end(HTTPException(404, "Invalid city name or city not found"))
        ELSE IF body.kind # "list" \/ Len(body.places) = 0
             THEN end(Unhandled("LookupError"))
        ELSE LET first == body.places[1]
                 lat == Get(first.lat)
                 lon == Get(first.lon)
             IN  IF ~first.isdict THEN end(Unhandled("AttributeError"))
                 ELSE IF CoordsMissing(lat, lon)
                      THEN end(HTTPException(502, "Geocoding returned no coordinates"))
                 ELSE [done |-> FALSE, outcome |-> NoOutcome,
                       resolved_name |-> PyOr(Get(first.name), JStr(city)),
                       call |-> Call("weather", <<>>, key.v, lat, lon)]

\* payload["main"]: the key is missing, or holds null, or holds an object with
\* (or without) temp.
Main(kind, temp) == [kind |-> kind, temp |-> temp]

\* One element of payload["weather"].
Condition(isdict, description) == [isdict |-> isdict, description |-> description]

\* payload["weather"]: the key is missing, or holds null, or holds a list.
Conditions(kind, items) == [kind |-> kind, items |-> items]

\* The body of a current-weather answer.
WBody(kind, main, weather) == [kind |-> kind, main |-> main, weather |-> weather]

\* The handler from the awaited current-weather call to its end.
WeatherResult(name, resp) ==
    LET body == resp.body
        shape == "Unexpected response shape from OpenWeather"
        temp == PyFloat(body.main.temp)
    IN  IF resp.exc # "none"
        THEN IF IsRequestError(resp.exc)
             THEN HTTPException(502, "Network error talking to OpenWeather Weather API")
             ELSE Unhandled(resp.exc)
        ELSE IF is_error(resp.status)
             THEN HTTPException(resp.status, "OpenWeather weather API error")
        ELSE IF body.kind = "notjson" THEN Unhandled("JSONDecodeError")
        ELSE IF body.kind # "object" \/ body.main.kind # "object"
                \/ body.main.temp.t = "absent" \/ ~temp.ok
             THEN HTTPException(500, shape)
        ELSE IF body.weather.kind # "list" \/ Len(body.weather.items) = 0
             THEN HTTPException(500, shape)
        ELSE IF ~body.weather.items[1].isdict
                \/ body.weather.items[1].description.t = "absent"
             THEN HTTPException(500, shape)
        ELSE ReturnWeather([city |-> name.s, temperature |-> temp.n,
                            weather_description |->
                                PyStr(body.weather.items[1].description)])

(* ----------------------------------------------------------------- inputs *)

NoKey == [set |-> FALSE, v |-> ""]
Key(x) == [set |-> TRUE, v |-> x]

\* OPENWEATHER_API_KEY as the process finds it: unset, empty, or a key.
ApiKeys == {NoKey, Key(""), Key("k1")}

Usernames == {<<"a","l">>, <<"B","o">>}

\* The same city in two casings.
Cities == {<<"l","o","n">>, <<"L","O","N">>}

GhNone == GhOther("none")
GeoNone == GeoBody("none", <<>>)
WNone == WBody("none", Main("absent", Absent), Conditions("absent", <<>>))

\* The response variables before the call is answered.
GhPending == Raised("pending", GhNone)
GeoPending == Raised("pending", GeoNone)
WPending == Raised("pending", WNone)

Counters(texts) == {JInt(12), JInt(0), Absent, Null} \cup {JStr(x) : x \in texts}

\* Profile objects: well formed ones, and ones with a field missing, null or
\* not numeric.
Profiles ==
    {GhBody("object", login, name, pr, fo, fg, Absent) :
        login \in {JStr(<<"a","l">>), Absent},
        name \in {JStr(<<"A","l">>), Null, Absent},
        pr \in Counters({<<"1","2">>, <<" ","7">>, <<"a","b">>}),
        fo \in {JInt(3), Absent, JStr(<<"4","0">>)},
        fg \in {JInt(5), JStr(<<"x">>)}}

GoodProfile ==
    GhBody("object", JStr(<<"a","l">>), JStr(<<"A","l">>), JInt(12), JInt(3), JInt(5), Absent)

\* Bodies of a 403: the message missing, null, a number, or a text.
ForbiddenBodies ==
    {GhOther("notjson"), GhOther("list")}
    \cup {GhBody("object", Absent, Absent, Absent, Absent, Absent, m) :
            m \in {Absent, Null, JInt(5),
                   JStr(<<"A","P","I"," ","R","a","t","e"," ","L","i","m","i","t","!">>),
                   JStr(<<"r","a","t","e","l","i","m","i","t">>),
                   JStr(<<"n","o">>)}}

RemainingHeaders == {NoHeader, Header("0"), Header("1"), Header("00")}

\* Status codes that are neither 2xx nor error codes to httpx.
OddStatuses == {101, 300, 304}
ErrorStatuses == {400, 401, 418, 429, 500, 503, 599}

GithubAnswers ==
    {Raised(e, GhNone) : e \in NetworkErrors}
    \cup {Answered(403, h, b) : h \in RemainingHeaders, b \in ForbiddenBodies}
    \cup {Answered(404, NoHeader, b) : b \in {GhOther("notjson"), GoodProfile}}
    \cup {Answered(st, h, b) : st \in OddStatuses \cup ErrorStatuses,
                               h \in {NoHeader, Header("0")},
                               b \in {GhOther("notjson"), GoodProfile}}
    \cup {Answered(st, NoHeader, b) : st \in {200, 201},
            b \in Profiles \cup {GhOther("notjson"), GhOther("list"), GhOther("null")}}

London == Place(TRUE, JStr(<<"L","o","n">>), JInt(51), JInt(0))
Paris == Place(TRUE, JStr(<<"P","a","r">>), JInt(48), JInt(2))

\* Elements of a geocoding list: complete ones, ones without a name or with an
\* empty name, ones with a coordinate missing or null, and a non-object.
Places ==
    {London, Paris,
     Place(TRUE, Absent, JInt(0), JInt(7)),
     Place(TRUE, JStr(<<>>), JInt(51), JInt(2)),
     Place(TRUE, JStr(<<"L","o","n">>), Absent, JInt(0)),
     Place(TRUE, JStr(<<"L","o","n">>), JInt(51), Null),
     Place(FALSE, Absent, Absent, Absent)}

RECURSIVE SeqsUpTo(_, _)
SeqsUpTo(S, n) ==
    IF n = 0 THEN {<<>>}
    ELSE LET shorter == SeqsUpTo(S, n - 1)
         IN  shorter \cup {Append(q, x) : q \in shorter, x \in S}

GeoBodies ==
    {GeoBody("notjson", <<>>), GeoBody("object", <<>>), GeoBody("null", <<>>)}
    \cup {GeoBody("list", ps) : ps \in SeqsUpTo(Places, MaxPlaces)}

GeoAnswers ==
    {Raised(e, GeoNone) : e \in NetworkErrors}
    \cup {Answered(st, NoHeader, b) : st \in ErrorStatuses,
            b \in {GeoBody("notjson", <<>>), GeoBody("list", <<London>>)}}
    \cup {Answered(st, NoHeader, b) : st \in OddStatuses,
            b \in {GeoBody("notjson", <<>>), GeoBody("list", <<>>),
                   GeoBody("list", <<London>>)}}
    \cup {Answered(200, NoHeader, b) : b \in GeoBodies}

Mains ==
    {Main("absent", Absent), Main("null", Absent), Main("object", Absent)}
    \cup {Main("object", t) : t \in {JInt(21), JInt(0 - 3), JStr(<<"2","1">>),
                                     JStr(<<"h","o","t">>), Null}}

Sunny == Condition(TRUE, JStr(<<"s","u","n">>))

ConditionLists ==
    {Conditions("absent", <<>>), Conditions("null", <<>>), Conditions("list", <<>>)}
    \cup {Conditions("list", <<c>>) :
            c \in {Sunny, Condition(TRUE, Absent), Condition(TRUE, Null),
                   Condition(TRUE, JInt(5)), Condition(FALSE, Absent)}}
    \cup {Conditions("list", <<Sunny, Condition(TRUE, JStr(<<"f","o","g">>))>>)}

GoodWeather == WBody("object", Main("object", JInt(21)), Conditions("list", <<Sunny>>))

WBodies ==
    {WBody("notjson", Main("absent", Absent), Conditions("absent", <<>>)),
     WBody("list", Main("absent", Absent), Conditions("absent", <<>>)),
     WBody("null", Main("absent", Absent), Conditions("absent", <<>>))}
    \cup {WBody("object", m, w) : m \in Mains, w \in ConditionLists}

WeatherAnswers ==
    {Raised(e, WNone) : e \in NetworkErrors}
    \cup {Answered(st, NoHeader, GoodWeather) : st \in ErrorStatuses \cup OddStatuses}
    \cup {Answered(200, NoHeader, b) : b \in WBodies}

(* ------------------------------------------------------------------ state *)

VARIABLES
    api_key,        \* os.getenv("OPENWEATHER_API_KEY")
    pc,             \* where each request's task stands
    route,          \* the endpoint each request came to
    arg,            \* its username or city
    calls,          \* the outbound calls it has issued, in order
    r_resp,         \* get_github_user's r
    geo_resp,       \* get_weather's geo_resp
    w_resp,         \* get_weather's w_resp
    resolved_name,  \* get_weather's resolved_name
    outcome         \* how the handler ended

vars == <<api_key, pc, route, arg, calls, r_resp, geo_resp, w_resp, resolved_name,
          outcome>>

Init ==
    /\ api_key \in ApiKeys
    /\ pc = [r \in Reqs |-> "idle"]
    /\ route = [r \in Reqs |-> "none"]
    /\ arg = [r \in Reqs |-> <<>>]
    /\ calls = [r \in Reqs |-> <<>>]
    /\ r_resp = [r \in Reqs |-> GhPending]
    /\ geo_resp = [r \in Reqs |-> GeoPending]
    /\ w_resp = [r \in Reqs |-> WPending]
    /\ resolved_name = [r \in Reqs |-> Null]
    /\ outcome = [r \in Reqs |-> NoOutcome]

\* OwnResolvedName with a slip: one slot shared by every task.
SharedResolvedName(r) == resolved_name[1]

\* resolved_name is a local of the request's own call of get_weather.
OwnResolvedName(r) == resolved_name[r]

\* GET /get_github_user?username=...: the handler runs to its await.
StartGithub(r, username) ==
    /\ pc[r] = "idle"
    /\ route' = [route EXCEPT ![r] = "github"]
    /\ arg' = [arg EXCEPT ![r] = username]
    /\ calls' = [calls EXCEPT ![r] = <<Call("github", username, "", Null, Null)>>]
    /\ pc' = [pc EXCEPT ![r] = "await_github"]
    /\ UNCHANGED <<api_key, r_resp, geo_resp, w_resp, resolved_name, outcome>>

\* The GitHub call is answered and the handler runs to its end.
GithubResponds(r, resp) ==
    /\ pc[r] = "await_github"
    /\ r_resp' = [r_resp EXCEPT ![r] = resp]
    /\ outcome' = [outcome EXCEPT ![r] = GithubResult(resp)]
    /\ pc' = [pc EXCEPT ![r] = "done"]
    /\ UNCHANGED <<api_key, route, arg, calls, geo_resp, w_resp, resolved_name>>

\* GET /get_weather/{city}: the key check, then the geocode call is awaited.
StartWeather(r, city) ==
    /\ pc[r] = "idle"
    /\ route' = [route EXCEPT ![r] = "weather"]
    /\ arg' = [arg EXCEPT ![r] = city]
    /\ IF KeyMissing(api_key)
       THEN /\ outcome' = [outcome EXCEPT ![r] =
                              HTTPException(500, "OpenWeather API key not configured")]
            /\ pc' = [pc EXCEPT ![r] = "done"]
            /\ UNCHANGED calls
       ELSE /\ calls' = [calls EXCEPT ![r] =
                            <<Call("geocode", city, api_key.v, Null, Null)>>]
            /\ pc' = [pc EXCEPT ![r] = "await_geo"]
            /\ UNCHANGED outcome
    /\ UNCHANGED <<api_key, r_resp, geo_resp, w_resp, resolved_name>>

\* The geocode call is answered: the handler ends, or awaits the weather call.
GeocodeResponds(r, resp) ==
    /\ pc[r] = "await_geo"
    /\ geo_resp' = [geo_resp EXCEPT ![r] = resp]
    /\ LET step == GeoStep(arg[r], api_key, resp)
       IN  IF step.done
           THEN /\ outcome' = [outcome EXCEPT ![r] = step.outcome]
                /\ pc' = [pc EXCEPT ![r] = "done"]
                /\ UNCHANGED <<calls, resolved_name>>
           ELSE /\ resolved_name' = [resolved_name EXCEPT ![r] = step.resolved_name]
                /\ calls' = [calls EXCEPT ![r] = Append(@, step.call)]
                /\ pc' = [pc EXCEPT ![r] = "await_weather"]
                /\ UNCHANGED outcome
    /\ UNCHANGED <<api_key, route, arg, r_resp, w_resp>>

\* The current-weather call is answered and the handler runs to its end.
WeatherResponds(r, resp) ==
    /\ pc[r] = "await_weather"
    /\ w_resp' = [w_resp EXCEPT ![r] = resp]
    /\ outcome' = [outcome EXCEPT ![r] = WeatherResult(OwnResolvedName(r), resp)]
    /\ pc' = [pc EXCEPT ![r] = "done"]
    /\ UNCHANGED <<api_key, route, arg, calls, r_resp, geo_resp, resolved_name>>

\* One request, from its arrival to its outcome, over every answer of the model.
Next ==
    \/ \E u \in Usernames : StartGithub(1, u)
    \/ \E resp \in GithubAnswers : GithubResponds(1, resp)
    \/ \E c \in Cities : StartWeather(1, c)
    \/ \E resp \in GeoAnswers : GeocodeResponds(1, resp)
    \/ \E resp \in WeatherAnswers : WeatherResponds(1, resp)

Spec == Init /\ [][Next]_vars

(* ------------------------------------------------ requests in flight together *)

\* The answers used when several requests are in flight: one of each kind the
\* handlers tell apart, and places and weather that differ between requests.
ConcGithubAnswers ==
    {Raised("ReadTimeout", GhNone),
     Answered(404, NoHeader, GhOther("notjson")),
     Answered(200, NoHeader, GoodProfile),
     Answered(200, NoHeader, GhOther("notjson"))}

ConcGeoAnswers ==
    {Raised("ConnectTimeout", GeoNone),
     Answered(500, NoHeader, GeoBody("notjson", <<>>)),
     Answered(200, NoHeader, GeoBody("notjson", <<>>)),
     Answered(200, NoHeader, GeoBody("list", <<>>)),
     Answered(200, NoHeader, GeoBody("list", <<London>>)),
     Answered(200, NoHeader, GeoBody("list", <<Paris>>)),
     Answered(200, NoHeader, GeoBody("list", <<Place(TRUE, Absent, JInt(0), JInt(7))>>))}

ConcWeatherAnswers ==
    {Raised("ReadTimeout", WNone),
     Answered(200, NoHeader, GoodWeather),
     Answered(200, NoHeader,
              WBody("object", Main("object", JStr(<<"1","8">>)),
                    Conditions("list", <<Condition(TRUE, JStr(<<"f","o","g">>))>>))),
     Answered(200, NoHeader, WBody("notjson", Main("absent", Absent),
                                   Conditions("absent", <<>>)))}

\* Any number of requests up to NumReqs, their steps interleaved at the awaits.
ConcNext ==
    \E r \in Reqs :
        \/ \E u \in Usernames : StartGithub(r, u)
        \/ \E resp \in ConcGithubAnswers : GithubResponds(r, resp)
        \/ \E c \in Cities : StartWeather(r, c)
        \/ \E resp \in ConcGeoAnswers : GeocodeResponds(r, resp)
        \/ \E resp \in ConcWeatherAnswers : WeatherResponds(r, resp)

ConcSpec == Init /\ [][ConcNext]_vars

\* Every outbound call is answered or fails in the end (the client's timeouts).
FairSpec ==
    /\ ConcSpec
    /\ \A r \in Reqs :
        /\ WF_vars(\E resp \in ConcGithubAnswers : GithubResponds(r, resp))
        /\ WF_vars(\E resp \in ConcGeoAnswers : GeocodeResponds(r, resp))
        /\ WF_vars(\E resp \in ConcWeatherAnswers : WeatherResponds(r, resp))

(* ----------------------------------------------------------------- claims *)

Success2xx(st) == 200 <= st /\ st <= 299
Done(r) == pc[r] = "done"
Failed(r, st) == outcome[r].kind = "http_error" /\ outcome[r].status = st
KeyAbsent == ~api_key.set \/ api_key.v = ""
ApiOrder(r) == [i \in 1..Len(calls[r]) |-> calls[r][i].api]

\* C1: a weather request handled while the API key is unset or empty ends
\* with status 500 and issues no outbound call at any point.
C1_NoKeyNoCall ==
    \A r \in Reqs :
        (route[r] = "weather" /\ KeyAbsent)
            => (Done(r) /\ Failed(r, 500) /\ calls[r] = <<>>)

C1_Witness ==
    route[1] = "weather" /\ api_key = Key("") /\ Done(1) /\ Failed(1, 500)

\* C2: an upstream 403 gives 429 when X-RateLimit-Remaining is exactly "0" or
\* the lower-cased body message contains "rate limit" (either alone), and 403
\* otherwise, a body that is not JSON included.
C2_RateLimit ==
    \A r \in Reqs :
        (Done(r) /\ route[r] = "github" /\ r_resp[r].exc = "none"
            /\ r_resp[r].status = 403)
        => LET b == r_resp[r].body
               zero == r_resp[r].remaining = Header("0")
               said == b.kind = "object" /\ b.message.t = "str"
                       /\ Contains(RateLimitText, Lower(b.message.s))
           IN  IF zero \/ said THEN Failed(r, 429) ELSE Failed(r, 403)

C2_Witness ==
    /\ Done(1) /\ r_resp[1].exc = "none" /\ r_resp[1].status = 403
    /\ r_resp[1].remaining = NoHeader
    /\ r_resp[1].body.message.t = "str"
    /\ Failed(1, 429)

\* C3: with the key configured, a network failure of the geocode call or of
\* the current-weather call gives 502 and no WeatherSummary at all.
C3_NetworkFailure ==
    \A r \in Reqs :
        (route[r] = "weather" /\ ~KeyAbsent
            /\ (geo_resp[r].exc \in NetworkErrors \/ w_resp[r].exc \in NetworkErrors))
        => (Done(r) /\ Failed(r, 502) /\ outcome[r].weather = NoWeather)

C3_Witness ==
    /\ Done(1) /\ geo_resp[1].exc = "none" /\ Len(calls[1]) = 2
    /\ w_resp[1].exc = "ReadTimeout" /\ Failed(1, 502)

NotSuccess(st) == ~Success2xx(st)
ClientOrServerError(st) == 400 <= st /\ st <= 599

\* Every answer request r received with a status in the class `covered`, and
\* which no other rule classifies, ended the request with that very status.
Forwards(r, covered(_)) ==
    /\ (r_resp[r].exc = "none" /\ covered(r_resp[r].status)
            /\ r_resp[r].status \notin {403, 404})
        => (Done(r) /\ Failed(r, r_resp[r].status))
    /\ (geo_resp[r].exc = "none" /\ covered(geo_resp[r].status))
        => (Done(r) /\ Failed(r, geo_resp[r].status))
    /\ (w_resp[r].exc = "none" /\ covered(w_resp[r].status))
        => (Done(r) /\ Failed(r, w_resp[r].status))

\* C4 as claimed: every non-2xx upstream status that is not otherwise
\* classified (1xx and 3xx included) is forwarded as the caller's status.
C4_AsClaimed == \A r \in Reqs : Forwards(r, NotSuccess)

\* C4 as amended: every 4xx or 5xx upstream status that is not otherwise
\* classified is forwarded as the caller's status.
C4_ErrorForwarded == \A r \in Reqs : Forwards(r, ClientOrServerError)

C4_Witness ==
    /\ Done(1) /\ route[1] = "weather" /\ Len(calls[1]) = 2
    /\ w_resp[1].exc = "none" /\ w_resp[1].status = 418 /\ Failed(1, 418)


\* The upstream answer x came with a success status and a body that is not JSON.
Unparseable(x) == x.exc = "none" /\ Success2xx(x.status) /\ x.body.kind = "notjson"

\* C5: no exception escapes a handler; an upstream success whose body cannot
\* be parsed ends as the handler's own 500 (or the documented 404 or 502).
C5_NoEscape ==
    \A r \in Reqs :
        /\ outcome[r].kind # "unhandled"
        /\ (Unparseable(r_resp[r]) \/ Unparseable(geo_resp[r]) \/ Unparseable(w_resp[r]))
            => (Done(r) /\ outcome[r].kind = "http_error"
                /\ outcome[r].status \in {500, 404, 502})

\* C6: with the key configured and a geocode success whose parsed body is not
\* a list or is the empty list, the status is 404 for every city string and
\* the current-weather call is not issued.
C6_CityNotFound ==
    \A r \in Reqs :
        (route[r] = "weather" /\ ~KeyAbsent /\ geo_resp[r].exc = "none"
            /\ Success2xx(geo_resp[r].status)
            /\ geo_resp[r].body.kind # "notjson"
            /\ (geo_resp[r].body.kind # "list" \/ geo_resp[r].body.places = <<>>))
        => (Done(r) /\ Failed(r, 404) /\ ApiOrder(r) = <<"geocode">>)

C6_Witness ==
    /\ Done(1) /\ arg[1] = <<"L","O","N">> /\ geo_resp[1].status = 200
    /\ geo_resp[1].body = GeoBody("list", <<>>) /\ Failed(1, 404)

\* The numeric texts of the model and the integers they spell.
NumericTexts == {<<"1","2">>, <<"4","0">>, <<"1","8">>, <<"2","1">>}
Spelled(x) ==
    CASE x = <<"1","2">> -> 12
      [] x = <<"4","0">> -> 40
      [] x = <<"1","8">> -> 18
      [] x = <<"2","1">> -> 21

\* The number an upstream field stands for: itself, or the one its text spells.
NumberOf(v) == IF v.t = "int" THEN v.n ELSE Spelled(v.s)

WellFormedCounter(v) ==
    v.t \in {"int", "absent"} \/ (v.t = "str" /\ v.s \in NumericTexts)
CounterValue(v) == IF v.t = "absent" THEN 0 ELSE NumberOf(v)

WellFormedProfile(b) ==
    /\ b.kind = "object"
    /\ b.login.t = "str"
    /\ b.name.t \in {"str", "null", "absent"}
    /\ WellFormedCounter(b.public_repos)
    /\ WellFormedCounter(b.followers)
    /\ WellFormedCounter(b.following)

\* C7: an upstream success with a well-formed profile gives a UserSummary of
\* exactly login, name, public_repos, followers, following; login and name are
\* the upstream's, each counter is the upstream field as an integer ("12" is
\* 12) and 0 when the field is absent.
C7_UserSummary ==
    \A r \in Reqs :
        (Done(r) /\ route[r] = "github" /\ r_resp[r].exc = "none"
            /\ Success2xx(r_resp[r].status) /\ WellFormedProfile(r_resp[r].body))
        => LET b == r_resp[r].body
               u == outcome[r].user
           IN  /\ outcome[r].kind = "user"
               /\ DOMAIN u = {"login", "name", "public_repos", "followers", "following"}
               /\ u.login = b.login.s
               /\ u.name = IF b.name.t = "str" THEN b.name ELSE Null
               /\ u.public_repos = CounterValue(b.public_repos)
               /\ u.followers = CounterValue(b.followers)
               /\ u.following = CounterValue(b.following)

C7_Witness ==
    /\ Done(1) /\ Success2xx(r_resp[1].status)
    /\ r_resp[1].body.public_repos = JStr(<<"1","2">>)
    /\ r_resp[1].body.followers = Absent
    /\ outcome[1].kind = "user"
    /\ outcome[1].user.public_repos = 12 /\ outcome[1].user.followers = 0


Completed(r) ==
    \/ outcome[r].kind = "http_error"
    \/ outcome[r].kind = "user" /\ route[r] = "github"
    \/ outcome[r].kind = "weather" /\ route[r] = "weather"

TimedOut(r) ==
    \E x \in {r_resp[r].exc, geo_resp[r].exc, w_resp[r].exc} : x \in TimeoutErrors

\* C8: when every outbound call is answered or fails in the end, every request
\* completes, with a complete summary or one error status and message, and a
\* timed-out call ends it with 502.
C8_Completes ==
    /\ \A r \in Reqs : (pc[r] # "idle") ~> Done(r)
    /\ [](\A r \in Reqs : Done(r) => Completed(r))
    /\ [](\A r \in Reqs : TimedOut(r) => (Done(r) /\ Failed(r, 502)))

\* The part of C8 that the escaping exceptions leave standing: every request
\* that came in ends, and a timed-out call ends it with 502.
C8_Terminates ==
    /\ \A r \in Reqs : (pc[r] # "idle") ~> Done(r)
    /\ [](\A r \in Reqs : TimedOut(r) => (Done(r) /\ Failed(r, 502)))

HasCoordinate(v) == v.t \notin {"absent", "null"}

\* The calls of request r: one for a user lookup; for weather at most two,
\* geocode then current-weather, the second only after a geocode answer whose
\* status is in the class `proceeds`, with a non-empty list whose first element
\* has lat and lon; a failed first call is never followed by a second.
CallDiscipline(r, proceeds(_)) ==
    /\ route[r] = "github" => ApiOrder(r) = <<"github">>
    /\ route[r] = "weather" =>
        /\ ApiOrder(r) \in {<<>>, <<"geocode">>, <<"geocode", "weather">>}
        /\ Len(calls[r]) = 2 =>
            /\ geo_resp[r].exc = "none" /\ proceeds(geo_resp[r].status)
            /\ geo_resp[r].body.kind = "list" /\ geo_resp[r].body.places # <<>>
            /\ geo_resp[r].body.places[1].isdict
            /\ HasCoordinate(geo_resp[r].body.places[1].lat)
            /\ HasCoordinate(geo_resp[r].body.places[1].lon)
        /\ (geo_resp[r].exc \in NetworkErrors
                \/ (geo_resp[r].exc = "none" /\ ~proceeds(geo_resp[r].status)))
            => (Done(r) /\ Len(calls[r]) = 1)

NotAnError(st) == ~ClientOrServerError(st)

\* C9 as claimed: no call is retried, and the current-weather call is issued
\* only after the geocode call returned a success (2xx) status.
C9_AsClaimed == \A r \in Reqs : CallDiscipline(r, Success2xx)

\* C9 as amended: no call is retried, and the current-weather call is issued
\* only after the geocode call returned a status that is not 4xx or 5xx.
C9_NoRetry == \A r \in Reqs : CallDiscipline(r, NotAnError)

C9_Witness ==
    /\ Done(1) /\ ApiOrder(1) = <<"geocode", "weather">>
    /\ geo_resp[1].status = 200 /\ Len(geo_resp[1].body.places) = 2
    /\ outcome[1].kind = "weather"

\* C10: under every interleaving, a request's calls and outcome come from its
\* own input and the answers to its own calls: the current-weather call
\* carries the lat and lon, and the returned city is the resolved name, of the
\* same request's geocode answer.
C10_Isolation ==
    \A r \in Reqs :
        /\ Len(calls[r]) >= 1 => calls[r][1].q = arg[r]
        /\ Len(calls[r]) = 2 =>
            /\ calls[r][2].lat = geo_resp[r].body.places[1].lat
            /\ calls[r][2].lon = geo_resp[r].body.places[1].lon
        /\ (Done(r) /\ outcome[r].kind = "weather") =>
            LET own == geo_resp[r].body.places[1].name
                w == w_resp[r].body
            IN  /\ outcome[r].weather.city =
                        IF own.t = "str" /\ own.s # <<>> THEN own.s ELSE arg[r]
                /\ outcome[r].weather.temperature = NumberOf(w.main.temp)
                /\ outcome[r].weather.weather_description =
                        w.weather.items[1].description.s
        /\ (Done(r) /\ outcome[r].kind = "user") =>
            outcome[r].user.login = r_resp[r].body.login.s
        /\ \A q \in Reqs :
            (Done(r) /\ Done(q) /\ route[r] = route[q] /\ arg[r] = arg[q]
                /\ r_resp[r] = r_resp[q] /\ geo_resp[r] = geo_resp[q]
                /\ w_resp[r] = w_resp[q])
            => (outcome[r] = outcome[q] /\ calls[r] = calls[q])

C10_Witness ==
    /\ Done(1) /\ Done(2)
    /\ outcome[1].kind = "weather" /\ outcome[2].kind = "weather"
    /\ outcome[1].weather.city = <<"P","a","r">>
    /\ outcome[2].weather.city = <<"L","o","n">>
    /\ calls[1][2].lat = JInt(48) /\ calls[2][2].lat = JInt(51)

====
